---- MODULE Spec2Model ----
(***************************************************************************)
(* A model of the pv_recorder Rust binding (src/src/pvrecorder.rs): the    *)
(* configuration builder, the session (PvRecorderInner) that owns a native *)
(* handle together with the entry-point table and the loaded library, the  *)
(* cloneable facade (PvRecorder, an Arc over the session) and the device   *)
(* enumerator.  The native library is the environment: every status,       *)
(* pointer, string and sample it hands back is an input drawn from a small  *)
(* set.                                                                    *)
(***************************************************************************)
EXTENDS Integers, Sequences, FiniteSets, TLC

(***************************************************************************)
(* Bounds of the model.                                                    *)
(***************************************************************************)
MaxFrameLength == 2
MaxBufferLen == 3
MaxClones == 3
MaxHandles == 1
MaxDevices == 2

(***************************************************************************)
(* PvRecorderStatus (pvrecorder.rs 35-45) and the builder's defaults.      *)
(***************************************************************************)
SUCCESS == 0
OUT_OF_MEMORY == 1
INVALID_ARGUMENT == 2
INVALID_STATE == 3
BACKEND_ERROR == 4
DEVICE_ALREADY_INITIALIZED == 5
DEVICE_NOT_INITIALIZED == 6
IO_ERROR == 7
RUNTIME_ERROR == 8

PvRecorderStatus ==
    {SUCCESS, OUT_OF_MEMORY, INVALID_ARGUMENT, INVALID_STATE, BACKEND_ERROR,
     DEVICE_ALREADY_INITIALIZED, DEVICE_NOT_INITIALIZED, IO_ERROR, RUNTIME_ERROR}

DEFAULT_DEVICE_INDEX == -1
DEFAULT_BUFFERED_FRAMES_COUNT == 50

(***************************************************************************)
(* PvRecorderErrorStatus and PvRecorderError.  A status is a tuple whose   *)
(* first element is the variant; LibraryError carries the native code.  A  *)
(* message is the string of its characters.                                *)
(***************************************************************************)
LibraryError(status) == <<"LibraryError", status>>
LibraryLoadError == <<"LibraryLoadError">>
ArgumentError == <<"ArgumentError">>
OtherError == <<"OtherError">>

PvRecorderError(status, message) == [status |-> status, message |-> message]

Ok(value) == [ok |-> TRUE, value |-> value]
Err(error) == [ok |-> FALSE, error |-> error]

\* str::contains: the needle is found at some position of the message
Contains(message, needle) ==
    \E i \in 1..(Len(message) - Len(needle) + 1) :
        SubSeq(message, i, i + Len(needle) - 1) = needle

\* the trace holds the event
Called(trace, event) == \E i \in 1..Len(trace) : trace[i] = event

Digit(d) ==
    CASE d = 0 -> "0" [] d = 1 -> "1" [] d = 2 -> "2" [] d = 3 -> "3"
      [] d = 4 -> "4" [] d = 5 -> "5" [] d = 6 -> "6" [] d = 7 -> "7"
      [] d = 8 -> "8" [] d = 9 -> "9"

RECURSIVE DisplayNat(_)
DisplayNat(n) ==
    IF n < 10 THEN Digit(n) ELSE DisplayNat(n \div 10) \o Digit(n % 10)

\* the "{}" of format! applied to an i32
DisplayI32(n) == IF n < 0 THEN "-" \o DisplayNat(-n) ELSE DisplayNat(n)

(***************************************************************************)
(* Native strings.  A C string is the sequence of its bytes (without the   *)
(* terminator); CStr::to_str validates UTF-8 and a Rust String is the      *)
(* sequence of the code points decoded.  The bytes the model draws are     *)
(* ASCII, the three bytes of U+20AC and 255, which no UTF-8 text holds.    *)
(***************************************************************************)
\* a continuation byte
Utf8Cont(b) == b >= 128 /\ b <= 191

\* the number of bytes of the sequence a lead byte opens, 0 for a byte that
\* opens none
Utf8Width(lead) ==
    IF lead < 128 THEN 1
    ELSE IF lead >= 194 /\ lead <= 223 THEN 2
    ELSE IF lead >= 224 /\ lead <= 239 THEN 3
    ELSE IF lead >= 240 /\ lead <= 244 THEN 4
    ELSE 0

\* the range of the second byte after a lead: narrowed after 224 and 240
\* (no overlong form), 237 (no surrogate) and 244 (nothing above U+10FFFF)
Utf8Second(lead, b) ==
    IF lead = 224 THEN b >= 160 /\ b <= 191
    ELSE IF lead = 237 THEN b >= 128 /\ b <= 159
    ELSE IF lead = 240 THEN b >= 144 /\ b <= 191
    ELSE IF lead = 244 THEN b >= 128 /\ b <= 143
    ELSE Utf8Cont(b)

RECURSIVE Utf8Valid(_)
Utf8Valid(bytes) ==
    IF bytes = <<>> THEN TRUE
    ELSE LET w == Utf8Width(bytes[1])
         IN  /\ w > 0
             /\ Len(bytes) >= w
             /\ w >= 2 => Utf8Second(bytes[1], bytes[2])
             /\ \A k \in 3..w : Utf8Cont(bytes[k])
             /\ Utf8Valid(SubSeq(bytes, w + 1, Len(bytes)))

\* the code points of bytes that are valid UTF-8
RECURSIVE Utf8Decode(_)
Utf8Decode(bytes) ==
    IF bytes = <<>> THEN <<>>
    ELSE LET w == Utf8Width(bytes[1])
             c == CASE w = 1 -> bytes[1]
                    [] w = 2 -> (bytes[1] - 192) * 64 + (bytes[2] - 128)
                    [] w = 3 -> (bytes[1] - 224) * 4096 + (bytes[2] - 128) * 64
                                    + (bytes[3] - 128)
                    [] w = 4 -> (bytes[1] - 240) * 262144 + (bytes[2] - 128) * 4096
                                    + (bytes[3] - 128) * 64 + (bytes[4] - 128)
         IN  <<c>> \o Utf8Decode(SubSeq(bytes, w + 1, Len(bytes)))

\* CStr::from_ptr(p).to_str(): Ok(text) or Err(Utf8Error)
CStrToStr(bytes) ==
    IF Utf8Valid(bytes) THEN Ok(Utf8Decode(bytes)) ELSE Err("Utf8Error")

(***************************************************************************)
(* The library loader.  The file system is the environment: the file at a  *)
(* path is absent, or a library exporting a set of symbols.                *)
(***************************************************************************)
Symbols ==
    <<"pv_recorder_init", "pv_recorder_delete", "pv_recorder_start",
      "pv_recorder_stop", "pv_recorder_read", "pv_recorder_set_debug_logging",
      "pv_recorder_get_is_recording", "pv_recorder_get_selected_device",
      "pv_recorder_get_available_devices", "pv_recorder_free_available_devices",
      "pv_recorder_sample_rate", "pv_recorder_version">>

SymbolSet == {Symbols[i] : i \in 1..Len(Symbols)}

\* pv_library_path(): the path of the library built for the platform
pv_library_path == "lib/libpv_recorder"

LibraryPaths == {pv_library_path, "lib/absent", "lib/stripped"}

\* pv_library_path() of the cfg(windows) build (util.rs 75-78)
pv_library_path_windows == "windows/amd64/libpv_recorder.dll"

\* a library that exports every symbol but one: a shared object, which the
\* cfg(unix) build looks symbols up in with dlsym, and a dll, which the
\* cfg(windows) build looks them up in with GetProcAddress
StrippedLibrary(symbol) == "lib/without/" \o symbol

StrippedDll(symbol) == "windows/amd64/without/" \o symbol

\* the paths of the libraries that lack symbols, with the two that load
LoadPaths ==
    {pv_library_path, pv_library_path_windows, "lib/bare", "lib/headless"}
        \cup {StrippedLibrary(s) : s \in SymbolSet}
        \cup {StrippedDll(s) : s \in SymbolSet}

File(exports, loader) == [exists |-> TRUE, exports |-> exports, loader |-> loader]

Absent == [exists |-> FALSE, exports |-> {}, loader |-> "dlsym"]

\* the files there are, by path
Files ==
    [path \in LibraryPaths \cup LoadPaths |->
        IF path = pv_library_path THEN File(SymbolSet, "dlsym")
        ELSE IF path = pv_library_path_windows THEN File(SymbolSet, "GetProcAddress")
        ELSE IF path = "lib/stripped"
             THEN File(SymbolSet \ {"pv_recorder_version"}, "dlsym")
        ELSE IF path = "lib/bare" THEN File({}, "dlsym")
        ELSE IF path = "lib/headless"
             THEN File(SymbolSet \ {"pv_recorder_stop", "pv_recorder_version"}, "dlsym")
        ELSE IF \E s \in SymbolSet : path = StrippedLibrary(s)
             THEN File({s \in SymbolSet : path # StrippedLibrary(s)}, "dlsym")
        ELSE IF \E s \in SymbolSet : path = StrippedDll(s)
             THEN File({s \in SymbolSet : path # StrippedDll(s)}, "GetProcAddress")
        ELSE Absent]

FileAt(path) == IF path \in DOMAIN Files THEN Files[path] ELSE Absent

\* Library::new(path), with the map_err of its two callers
LibraryNew(path) ==
    IF FileAt(path).exists
    THEN Ok([path |-> path, exports |-> FileAt(path).exports,
             loader |-> FileAt(path).loader])
    ELSE Err(PvRecorderError(LibraryLoadError,
             "Failed to load pvrecorder dynamic library: " \o path
                 \o ": cannot open shared object file: No such file or directory"))

\* The Display of the error of Library::get in the cfg(unix) build: the text
\* of dlerror, which says in which library which symbol is undefined.
DlsymDescription(library, function_name) ==
    library.path \o ": undefined symbol: " \o function_name

\* The Display of the error of Library::get in the cfg(windows) build
\* (libloading::Error::GetProcAddress): a fixed text, the same for every
\* library and every symbol.
GetProcAddressDescription == "GetProcAddress failed"

\* "{}" of err at the map_err of load_library_fn: the text is the loader's,
\* of the build the library is loaded by
LoaderDescription(library, function_name) ==
    IF library.loader = "dlsym" THEN DlsymDescription(library, function_name)
    ELSE GetProcAddressDescription

\* Library::get(function_name) with its map_err: function_name goes to the
\* lookup only; the message is the fixed prefix and the text of the error
load_library_fn(library, function_name) ==
    IF function_name \in library.exports
    THEN Ok(function_name)
    ELSE Err(PvRecorderError(LibraryLoadError,
             "Failed to load function symbol from pvrecorder library: "
                 \o LoaderDescription(library, function_name)))

\* the fields of the table are resolved in declaration order; the first
\* failure returns, through "?", before any later symbol is looked up
RECURSIVE ResolveFrom(_, _, _)
ResolveFrom(lib, i, resolved) ==
    IF i > Len(Symbols) THEN Ok([fns |-> resolved, lib_guard |-> lib])
    ELSE LET r == load_library_fn(lib, Symbols[i])
         IN  IF r.ok THEN ResolveFrom(lib, i + 1, resolved \cup {r.value})
             ELSE Err(r.error)

PvRecorderInnerVTable_new(lib) == ResolveFrom(lib, 1, {})

\* a check that lets INVALID_STATE pass for success
check_fn_call_status_lenient(status, function_name) ==
    IF status \in {SUCCESS, INVALID_STATE} THEN Ok(<<>>)
    ELSE Err(PvRecorderError(LibraryError(status),
             "Function '" \o function_name
                 \o "' in the pvrecorder library failed"))

check_fn_call_status(status, function_name) ==
    IF status = SUCCESS THEN Ok(<<>>)
    ELSE Err(PvRecorderError(LibraryError(status),
             "Function '" \o function_name
                 \o "' in the pvrecorder library failed"))

(***************************************************************************)
(* PvRecorderInner::init.  `native` is what the native layer answers:      *)
(* the status of pv_recorder_init and the handle it stores in the          *)
(* out-parameter (0 is the null pointer), the C strings behind             *)
(* pv_recorder_get_selected_device and pv_recorder_version, and the sample *)
(* rate.  The outcome is the value returned together with the trace of     *)
(* what was done to the library on the way: "Library::new" is the attempt  *)
(* to open it, "Library::drop" the release of an opened library, every     *)
(* other event the call of that native entry point.                        *)
(***************************************************************************)
Outcome(result, trace) == [result |-> result, trace |-> trace]

\* a pointer taken for a handle without looking at it
NonNull_new_unchecked(cpvrecorder_ptr) == Ok(cpvrecorder_ptr)

\* NonNull::new(cpvrecorder_ptr).ok_or_else(..): the null pointer is an error
NonNull_new(cpvrecorder_ptr) ==
    IF cpvrecorder_ptr # 0 THEN Ok(cpvrecorder_ptr)
    ELSE Err(PvRecorderError(OtherError,
             "pv_recorder_init returned SUCCESS but pointer is null"))

PvRecorderInner_init(frame_length, device_index, buffered_frames_count, library_path, native) ==
    LET lib == LibraryNew(library_path)
        vtable == PvRecorderInnerVTable_new(lib.value)
        status == check_fn_call_status(native.status, "pv_recorder_init")
        cpvrecorder == NonNull_new(native.handle)
        selected_device == CStrToStr(native.selected_device)
        version == CStrToStr(native.version)
        t1 == <<"Library::new">>
        t2 == t1 \o <<"pv_recorder_init">>
        t3 == t2 \o <<"pv_recorder_get_selected_device">>
        t4 == t3 \o <<"pv_recorder_sample_rate", "pv_recorder_version">>
    IN  IF ~lib.ok THEN Outcome(Err(lib.error), t1)
        ELSE IF ~vtable.ok THEN Outcome(Err(vtable.error), t1 \o <<"Library::drop">>)
        ELSE IF ~status.ok THEN Outcome(Err(status.error), t2 \o <<"Library::drop">>)
        ELSE IF ~cpvrecorder.ok
             THEN Outcome(Err(cpvrecorder.error), t2 \o <<"Library::drop">>)
        ELSE IF ~selected_device.ok
             THEN Outcome(Err(PvRecorderError(OtherError,
                        "Failed to convert selected device string")),
                      t3 \o <<"Library::drop">>)
        ELSE IF ~version.ok
             THEN Outcome(Err(PvRecorderError(OtherError,
                        "Failed to convert version string")),
                      t4 \o <<"Library::drop">>)
        ELSE Outcome(Ok([cpvrecorder |-> cpvrecorder.value,
                         frame_length |-> frame_length,
                         sample_rate |-> native.sample_rate,
                         selected_device |-> selected_device.value,
                         version |-> version.value,
                         vtable |-> vtable.value]),
                     t4)

(***************************************************************************)
(* PvRecorderInner::get_available_devices.  `native` is the status of      *)
(* pv_recorder_get_available_devices with the count and the list of C      *)
(* strings it hands out.                                                   *)
(***************************************************************************)
\* the process died on a read of memory that is not mapped
Fault == [ok |-> FALSE, fault |-> "SIGSEGV"]

\* "i < device_list_length as usize", i counted from 0: a negative count is
\* cast to 2^64 + count, which no index the loop comes to reaches
LoopRuns(i, device_list_length) ==
    IF device_list_length < 0 THEN TRUE ELSE i < device_list_length

\* a loop that skips the names that do not decode
RECURSIVE DecodeDevicesLossy(_, _, _, _)
DecodeDevicesLossy(device_list_ptr, device_list_length, i, device_list) ==
    IF ~LoopRuns(i - 1, device_list_length) THEN Ok(device_list)
    ELSE IF i > Len(device_list_ptr) THEN Fault
    ELSE LET device == CStrToStr(device_list_ptr[i])
         IN  DecodeDevicesLossy(device_list_ptr, device_list_length, i + 1,
                                IF device.ok THEN Append(device_list, device.value)
                                ELSE device_list)

\* the loop over 0..device_list_length as usize (i is the index plus one);
\* device_list_ptr is the memory at the pointer, the strings of the list and
\* what lies after them.  The first name that does not decode returns the
\* error through "?".  A count that is negative or larger than the list takes
\* the loop past the list: it reads what lies there, and past that the
\* process dies.
RECURSIVE DecodeDevices(_, _, _, _)
DecodeDevices(device_list_ptr, device_list_length, i, device_list) ==
    IF ~LoopRuns(i - 1, device_list_length) THEN Ok(device_list)
    ELSE IF i > Len(device_list_ptr) THEN Fault
    ELSE LET device == CStrToStr(device_list_ptr[i])
         IN  IF device.ok
             THEN DecodeDevices(device_list_ptr, device_list_length, i + 1,
                                Append(device_list, device.value))
             ELSE Err(PvRecorderError(OtherError,
                      "Failed to convert device strings"))

get_available_devices(library_path, native) ==
    LET lib == LibraryNew(library_path)
        vtable == PvRecorderInnerVTable_new(lib.value)
        status == check_fn_call_status(native.status,
                                       "pv_recorder_get_available_devices")
        device_list == DecodeDevices(native.list \o native.past, native.count, 1, <<>>)
        t1 == <<"Library::new">>
        t2 == t1 \o <<"pv_recorder_get_available_devices">>
    IN  IF ~lib.ok THEN Outcome(Err(lib.error), t1)
        ELSE IF ~vtable.ok THEN Outcome(Err(vtable.error), t1 \o <<"Library::drop">>)
        ELSE IF ~status.ok THEN Outcome(Err(status.error), t2 \o <<"Library::drop">>)
        ELSE IF device_list = Fault THEN Outcome(Fault, t2)
        ELSE IF ~device_list.ok
             THEN Outcome(Err(device_list.error), t2 \o <<"Library::drop">>)
        ELSE Outcome(Ok(device_list.value),
                     t2 \o <<"pv_recorder_free_available_devices", "Library::drop">>)

(***************************************************************************)
(* PvRecorderBuilder.                                                      *)
(***************************************************************************)
PvRecorderBuilder_new(frame_length) ==
    [frame_length |-> frame_length,
     device_index |-> DEFAULT_DEVICE_INDEX,
     buffered_frames_count |-> DEFAULT_BUFFERED_FRAMES_COUNT,
     library_path |-> pv_library_path]

\* a check that lets 0 through
FrameLengthRejectedBelowZero(frame_length) == frame_length < 0

FrameLengthRejected(frame_length) == frame_length <= 0

\* a check that lets -2 through
DeviceIndexRejectedBelowMinusTwo(device_index) == device_index < -2

DeviceIndexRejected(device_index) == device_index < -1

\* a check that lets 0 through
BufferedFramesCountRejectedBelowZero(buffered_frames_count) ==
    buffered_frames_count < 0

BufferedFramesCountRejected(buffered_frames_count) == buffered_frames_count <= 0

\* the three checks of PvRecorderBuilder::init, in the order of the code;
\* Ok when the configuration passes them all
ValidateConfig(b) ==
    IF FrameLengthRejected(b.frame_length)
    THEN Err(PvRecorderError(ArgumentError,
             "frame_length must be greater than 0, got: "
                 \o DisplayI32(b.frame_length)))
    ELSE IF DeviceIndexRejected(b.device_index)
    THEN Err(PvRecorderError(ArgumentError,
             "device_index must be >= -1, got: "
                 \o DisplayI32(b.device_index)))
    ELSE IF BufferedFramesCountRejected(b.buffered_frames_count)
    THEN Err(PvRecorderError(ArgumentError,
             "buffered_frames_count must be greater than 0, got: "
                 \o DisplayI32(b.buffered_frames_count)))
    ELSE Ok(<<>>)

\* PvRecorderBuilder::init: the session on success, wrapped by the action
\* into an Arc and a facade
PvRecorderBuilder_init(b, native) ==
    LET valid == ValidateConfig(b)
    IN  IF ~valid.ok THEN Outcome(Err(valid.error), <<>>)
        ELSE PvRecorderInner_init(b.frame_length, b.device_index,
                                  b.buffered_frames_count, b.library_path, native)

(***************************************************************************)
(* The operations of a session (PvRecorderInner) on a buffer.              *)
(***************************************************************************)
Panic(message) == [ok |-> FALSE, panic |-> message]

IsPanic(result) == "panic" \in DOMAIN result

IsErr(result) == "error" \in DOMAIN result

\* an assert! that is off by one, and one that wants the exact length
ReadIntoAcceptsOneShort(buffer_len, frame_length) ==
    IF frame_length < 0 THEN FALSE ELSE buffer_len >= frame_length - 1

ReadIntoAcceptsExact(buffer_len, frame_length) ==
    IF frame_length < 0 THEN FALSE ELSE buffer_len = frame_length

\* the condition of the assert! of read_into,
\* "buffer.len() >= self.frame_length() as usize": a negative frame length is
\* cast to 2^64 + frame_length, which the length of no buffer reaches
ReadIntoAccepts(buffer_len, frame_length) ==
    IF frame_length < 0 THEN FALSE ELSE buffer_len >= frame_length

\* buffer.as_mut_ptr(): the index of the buffer the native layer writes from
ReadIntoPtr(buffer) == 1

\* a frame allocated one sample too long
ReadAllocOneMore(frame_length) ==
    IF frame_length < 0 THEN Panic("capacity overflow")
    ELSE [i \in 1..(frame_length + 1) |-> 0]

\* "vec![0; self.frame_length() as usize]" of read: a negative frame length
\* is cast to 2^64 + frame_length samples, more bytes than a Vec can hold, and
\* the allocation panics
ReadAlloc(frame_length) ==
    IF frame_length < 0 THEN Panic("capacity overflow")
    ELSE [i \in 1..frame_length |-> 0]

\* What pv_recorder_read leaves in the caller's memory: the samples it
\* produced, stored from the pointer it was given on.
NativeWrite(buffer, ptr, samples) ==
    [i \in 1..Len(buffer) |->
        IF i >= ptr /\ i - ptr + 1 <= Len(samples) THEN samples[i - ptr + 1]
        ELSE buffer[i]]

\* PvRecorderInner::read_into on a session of the given frame length;
\* `native` is the status of pv_recorder_read and the samples it wrote
read_into(frame_length, buffer, native) ==
    IF ~ReadIntoAccepts(Len(buffer), frame_length)
    THEN [result |-> Panic("buffer length " \o DisplayI32(Len(buffer))
                           \o " is less than frame_length "
                           \o DisplayI32(frame_length)),
          buffer |-> buffer,
          trace |-> <<>>]
    ELSE [result |-> check_fn_call_status(native.status, "pv_recorder_read"),
          buffer |-> NativeWrite(buffer, ReadIntoPtr(buffer), native.samples),
          trace |-> <<"pv_recorder_read">>]

\* PvRecorderInner::read
read(frame_length, native) ==
    LET frame == ReadAlloc(frame_length)
        r == read_into(frame_length, frame, native)
    IN  IF frame_length < 0 THEN [result |-> frame, trace |-> <<>>]
        ELSE [result |-> IF r.result.ok THEN Ok(r.buffer) ELSE r.result,
              trace |-> r.trace]

\* a c_int taken for true only when it is 1
IsRecordingOnlyOne(answer) == answer = 1

\* PvRecorderInner::is_recording: the c_int of pv_recorder_get_is_recording
\* compared with 0
IsRecording(answer) == answer # 0

\* "as usize" on an i32: the value itself when it is not negative; a negative
\* one is sign-extended to 2^64 + n, written here as the pair of 2^64's
\* exponent and n
AsUsize(n) == IF n >= 0 THEN n ELSE <<64, n>>

\* a getter that hands out the other cached string
PvRecorder_selected_device_swapped(inner) == inner.version

\* PvRecorder::frame_length, sample_rate, selected_device and version: the
\* fields of the session, the two integers cast to usize
PvRecorder_frame_length(inner) == AsUsize(inner.frame_length)

PvRecorder_sample_rate(inner) == AsUsize(inner.sample_rate)

PvRecorder_selected_device(inner) == inner.selected_device

PvRecorder_version(inner) == inner.version

\* a count that every drop takes to 0
StrongAfterDropFrees(n) == 0

\* the count an Arc holds after a clone of it is taken (derive(Clone) on
\* PvRecorder clones the Arc) and after one is dropped
StrongAfterCloneUncounted(n) == n

StrongAfterClone(n) == n + 1

StrongAfterDrop(n) == n - 1

\* a Drop that leaves the handle alone
DropCallsNone(inner) == <<>>

\* Drop for PvRecorderInner: the native calls made on the owned handle
DropCalls(inner) == <<"pv_recorder_delete">>

(***************************************************************************)
(* The state.                                                              *)
(***************************************************************************)
VARIABLES
    builder,   \* the fields of the PvRecorderBuilder
    session,   \* session[h]: the PvRecorderInner owning native handle h; NoSession
               \* before there is one, Dropped once it was dropped
    strong,    \* strong[h]: the strong count of the Arc around session[h]
    facade,    \* facade[c]: the handle of the session PvRecorder c shares, 0: no facade
    pc,        \* pc[c]: where the thread owning facade c is
    native,    \* native[h]: the native object behind handle h
    deletes,   \* deletes[h]: how often pv_recorder_delete was called with h
    last       \* the step just taken; for a call that returned, its arguments,
               \* its result and the trace of what it did to the native layer

vars == <<builder, session, strong, facade, pc, native, deletes, last>>

Handles == 1..MaxHandles
Clones == 1..MaxClones

NoSession == [cpvrecorder |-> 0]

Dropped == [cpvrecorder |-> 0, dropped |-> TRUE]

Idle == [at |-> "idle"]

\* what the configuration setters are called with
FrameLengths == -1..MaxFrameLength
DeviceIndexes == -2..0
BufferedFramesCounts == {0, DEFAULT_BUFFERED_FRAMES_COUNT}

\* what the native layer may answer
ErrorStatuses == PvRecorderStatus \ {SUCCESS}
NativeStrings == {<<65>>, <<226, 130, 172>>, <<255>>}
VersionStrings == {<<49>>, <<255>>}
SampleRates == {16000}
SampleValues == {0, 1}
TrueInts == {1, 2}

SeqsUpTo(S, n) == UNION {[1..k -> S] : k \in 0..n}

\* the buffers callers pass to read_into: n entries, each told apart from
\* any sample the native layer produces
CallerBuffer(n) == [i \in 1..n |-> -i]
CallerBuffers == {CallerBuffer(n) : n \in 0..MaxBufferLen}

\* the handle the next successful pv_recorder_init hands out: handles are
\* allocations, none is handed out twice; 0 when the native layer has none left
FreshHandle ==
    IF \E h \in Handles : native[h] = "unallocated"
    THEN CHOOSE h \in Handles :
            /\ native[h] = "unallocated"
            /\ \A g \in Handles : native[g] = "unallocated" => h <= g
    ELSE 0

FreeClone ==
    IF \E c \in Clones : facade[c] = 0
    THEN CHOOSE c \in Clones : facade[c] = 0 /\ \A d \in Clones : facade[d] = 0 => c <= d
    ELSE 0

InitNatives ==
    {[status |-> s, handle |-> 0, selected_device |-> <<65>>,
      sample_rate |-> 16000, version |-> <<49>>] : s \in ErrorStatuses}
    \cup
    {[status |-> SUCCESS, handle |-> p, selected_device |-> d,
      sample_rate |-> r, version |-> v] :
        p \in {0, FreshHandle}, d \in NativeStrings, r \in SampleRates,
        v \in VersionStrings}

DeviceNatives ==
    {[status |-> s, count |-> 0, list |-> <<>>, past |-> <<>>] : s \in ErrorStatuses}
    \cup
    {[status |-> SUCCESS, count |-> Len(l), list |-> l, past |-> <<>>] :
        l \in SeqsUpTo(NativeStrings, MaxDevices)}

Init ==
    /\ builder \in {PvRecorderBuilder_new(n) : n \in FrameLengths}
    /\ session = [h \in Handles |-> NoSession]
    /\ strong = [h \in Handles |-> 0]
    /\ facade = [c \in Clones |-> 0]
    /\ pc = [c \in Clones |-> Idle]
    /\ native = [h \in Handles |-> "unallocated"]
    /\ deletes = [h \in Handles |-> 0]
    /\ last = [op |-> "none"]

(***************************************************************************)
(* The builder.                                                            *)
(***************************************************************************)
SetFrameLength(n) ==
    /\ builder' = [builder EXCEPT !.frame_length = n]
    /\ last' = [op |-> "frame_length"]
    /\ UNCHANGED <<session, strong, facade, pc, native, deletes>>

SetDeviceIndex(n) ==
    /\ builder' = [builder EXCEPT !.device_index = n]
    /\ last' = [op |-> "device_index"]
    /\ UNCHANGED <<session, strong, facade, pc, native, deletes>>

SetBufferedFramesCount(n) ==
    /\ builder' = [builder EXCEPT !.buffered_frames_count = n]
    /\ last' = [op |-> "buffered_frames_count"]
    /\ UNCHANGED <<session, strong, facade, pc, native, deletes>>

SetLibraryPath(p) ==
    /\ builder' = [builder EXCEPT !.library_path = p]
    /\ last' = [op |-> "library_path"]
    /\ UNCHANGED <<session, strong, facade, pc, native, deletes>>

\* PvRecorderBuilder::init.  A handle the native layer produced is an
\* allocation of it from then on, whatever init goes on to return.
BuilderInit(nat) ==
    LET out == PvRecorderBuilder_init(builder, nat)
        called == Called(out.trace, "pv_recorder_init")
        produced == called /\ nat.status = SUCCESS /\ nat.handle # 0
        h == nat.handle
        c == FreeClone
    IN  /\ out.result.ok => c # 0
        /\ native' = IF produced THEN [native EXCEPT ![h] = "stopped"] ELSE native
        /\ IF out.result.ok
           THEN /\ session' = [session EXCEPT ![h] = out.result.value]
                /\ strong' = [strong EXCEPT ![h] = 1]
                /\ facade' = [facade EXCEPT ![c] = h]
           ELSE UNCHANGED <<session, strong, facade>>
        /\ last' = [op |-> "init",
                    config |-> builder,
                    produced |-> IF produced THEN h ELSE 0,
                    statuses |-> IF called THEN <<nat.status>> ELSE <<>>,
                    result |-> IF out.result.ok THEN Ok([inner |-> h]) ELSE out.result,
                    trace |-> out.trace]
        /\ UNCHANGED <<builder, pc, deletes>>

\* PvRecorderBuilder::get_available_devices
GetAvailableDevices(nat) ==
    LET out == get_available_devices(builder.library_path, nat)
    IN  /\ last' = [op |-> "get_available_devices",
                    library_path |-> builder.library_path,
                    native |-> nat,
                    result |-> out.result,
                    trace |-> out.trace]
        /\ UNCHANGED <<builder, session, strong, facade, pc, native, deletes>>

(***************************************************************************)
(* The facade.  Every facade is owned by one thread.  A forwarded call     *)
(* takes two steps: the thread enters the native entry point, and the      *)
(* native entry point returns; other threads run in between.               *)
(***************************************************************************)
Held(c) == facade[c] # 0 /\ pc[c] = Idle

InNative(c, op) == facade[c] # 0 /\ pc[c].at = "native" /\ pc[c].op = op

Enter(c, call) ==
    /\ Held(c)
    /\ pc' = [pc EXCEPT ![c] = [at |-> "native"] @@ call]
    /\ last' = [op |-> "enter"]
    /\ UNCHANGED <<builder, session, strong, facade, native, deletes>>

Returned(c, h, record) ==
    /\ pc' = [pc EXCEPT ![c] = Idle]
    /\ last' = [clone |-> c, handle |-> h] @@ record
    /\ UNCHANGED <<builder, session, strong, facade, deletes>>

\* derive(Clone) on PvRecorder: another facade over the same Arc
CloneFacade(c) ==
    LET d == FreeClone
        h == facade[c]
    IN  /\ Held(c)
        /\ d # 0
        /\ facade' = [facade EXCEPT ![d] = h]
        /\ strong' = [strong EXCEPT ![h] = StrongAfterClone(@)]
        /\ last' = [op |-> "clone", clone |-> c, handle |-> h, value |-> d]
        /\ UNCHANGED <<builder, session, pc, native, deletes>>

\* PvRecorder::start
CallStart(c) == Enter(c, [op |-> "start"])

ReturnStart(c, status) ==
    LET h == facade[c]
    IN  /\ InNative(c, "start")
        /\ status = SUCCESS => native[h] = "stopped"
        /\ native' = IF status = SUCCESS THEN [native EXCEPT ![h] = "recording"]
                     ELSE native
        /\ Returned(c, h, [op |-> "start",
                           recording |-> native[h] = "recording",
                           native |-> [status |-> status],
                           result |-> check_fn_call_status(status, "pv_recorder_start"),
                           trace |-> <<"pv_recorder_start">>])

\* PvRecorder::stop
CallStop(c) == Enter(c, [op |-> "stop"])

ReturnStop(c, status) ==
    LET h == facade[c]
    IN  /\ InNative(c, "stop")
        /\ status = SUCCESS => native[h] = "recording"
        /\ native' = IF status = SUCCESS THEN [native EXCEPT ![h] = "stopped"]
                     ELSE native
        /\ Returned(c, h, [op |-> "stop",
                           recording |-> native[h] = "recording",
                           native |-> [status |-> status],
                           result |-> check_fn_call_status(status, "pv_recorder_stop"),
                           trace |-> <<"pv_recorder_stop">>])

\* the answers of pv_recorder_read for a frame length: a full frame with
\* SUCCESS; nothing stored with an error status, except that IO_ERROR (the
\* frame did not fill up in time) leaves the part that had arrived
ReadNatives(frame_length, recording) ==
    {[status |-> s, samples |-> <<>>] : s \in ErrorStatuses}
    \cup
    {[status |-> IO_ERROR, samples |-> w] :
        w \in SeqsUpTo(SampleValues, frame_length - 1)}
    \cup
    IF recording
    THEN {[status |-> SUCCESS, samples |-> w] : w \in [1..frame_length -> SampleValues]}
    ELSE {}

\* PvRecorder::read: the frame is allocated, then read_into runs on it; an
\* allocation that panics ends the call before the native entry point is
\* entered
CallRead(c) ==
    LET h == facade[c]
        frame == ReadAlloc(session[h].frame_length)
    IN  /\ Held(c)
        /\ IF session[h].frame_length < 0
           THEN /\ last' = [clone |-> c, handle |-> h, op |-> "read",
                            frame_length |-> session[h].frame_length,
                            recording |-> native[h] = "recording",
                            result |-> frame,
                            trace |-> <<>>]
                /\ UNCHANGED <<builder, session, strong, facade, pc, native, deletes>>
           ELSE Enter(c, [op |-> "read", buffer |-> frame])

ReturnRead(c, nat) ==
    LET h == facade[c]
        out == read(session[h].frame_length, nat)
    IN  /\ InNative(c, "read")
        /\ nat \in ReadNatives(session[h].frame_length, native[h] = "recording")
        /\ Returned(c, h, [op |-> "read",
                           frame_length |-> session[h].frame_length,
                           recording |-> native[h] = "recording",
                           native |-> nat,
                           result |-> out.result,
                           trace |-> out.trace])
        /\ UNCHANGED native

\* PvRecorder::read_into: a buffer that fails the assert! panics before the
\* native entry point is entered
CallReadInto(c, buffer) ==
    LET h == facade[c]
        out == read_into(session[h].frame_length, buffer, [status |-> SUCCESS, samples |-> <<>>])
    IN  /\ Held(c)
        /\ IF IsPanic(out.result)
           THEN /\ last' = [clone |-> c, handle |-> h, op |-> "read_into",
                            frame_length |-> session[h].frame_length,
                            recording |-> native[h] = "recording",
                            buffer_in |-> buffer,
                            buffer_out |-> out.buffer,
                            result |-> out.result,
                            trace |-> out.trace]
                /\ UNCHANGED <<builder, session, strong, facade, pc, native, deletes>>
           ELSE Enter(c, [op |-> "read_into", buffer |-> buffer])

ReturnReadInto(c, nat) ==
    LET h == facade[c]
        out == read_into(session[h].frame_length, pc[c].buffer, nat)
    IN  /\ InNative(c, "read_into")
        /\ nat \in ReadNatives(session[h].frame_length, native[h] = "recording")
        /\ Returned(c, h, [op |-> "read_into",
                           frame_length |-> session[h].frame_length,
                           recording |-> native[h] = "recording",
                           buffer_in |-> pc[c].buffer,
                           buffer_out |-> out.buffer,
                           native |-> nat,
                           result |-> out.result,
                           trace |-> out.trace])
        /\ UNCHANGED native

\* PvRecorder::is_recording: the native integer, compared with 0
CallIsRecording(c) == Enter(c, [op |-> "is_recording"])

ReturnIsRecording(c, answer) ==
    LET h == facade[c]
    IN  /\ InNative(c, "is_recording")
        /\ answer \in (IF native[h] = "recording" THEN TrueInts ELSE {0})
        /\ Returned(c, h, [op |-> "is_recording",
                           recording |-> native[h] = "recording",
                           native |-> answer,
                           value |-> IsRecording(answer),
                           trace |-> <<"pv_recorder_get_is_recording">>])
        /\ UNCHANGED native

\* PvRecorder::set_debug_logging: the flag goes out as a c_int
CallSetDebugLogging(c, is_debug_logging_enabled) ==
    Enter(c, [op |-> "set_debug_logging",
              flag |-> IF is_debug_logging_enabled THEN 1 ELSE 0])

ReturnSetDebugLogging(c) ==
    LET h == facade[c]
    IN  /\ InNative(c, "set_debug_logging")
        /\ Returned(c, h, [op |-> "set_debug_logging",
                           flag |-> pc[c].flag,
                           trace |-> <<"pv_recorder_set_debug_logging">>])
        /\ UNCHANGED native

\* the four getters: no native entry point is entered, the call is one step
Got(c, getter, value) ==
    /\ Held(c)
    /\ last' = [op |-> "get", getter |-> getter, clone |-> c, handle |-> facade[c],
                value |-> value, trace |-> <<>>]
    /\ UNCHANGED <<builder, session, strong, facade, pc, native, deletes>>

GetFrameLength(c) ==
    Got(c, "frame_length", PvRecorder_frame_length(session[facade[c]]))

GetSampleRate(c) ==
    Got(c, "sample_rate", PvRecorder_sample_rate(session[facade[c]]))

GetSelectedDevice(c) ==
    Got(c, "selected_device", PvRecorder_selected_device(session[facade[c]]))

GetVersion(c) ==
    Got(c, "version", PvRecorder_version(session[facade[c]]))

(***************************************************************************)
(* Dropping a facade drops its Arc; the thread that takes the count to 0   *)
(* runs Drop for PvRecorderInner and then drops the fields, the            *)
(* entry-point table with the library among them.                          *)
(***************************************************************************)
DropFacade(c) ==
    LET h == facade[c]
        n == StrongAfterDrop(strong[h])
    IN  /\ Held(c)
        /\ strong' = [strong EXCEPT ![h] = n]
        /\ IF n = 0
           THEN /\ pc' = [pc EXCEPT ![c] = [at |-> "drop"]]
                /\ UNCHANGED facade
           ELSE /\ facade' = [facade EXCEPT ![c] = 0]
                /\ UNCHANGED pc
        /\ last' = [op |-> "drop", clone |-> c, handle |-> h]
        /\ UNCHANGED <<builder, session, native, deletes>>

RECURSIVE CountOf(_, _)
CountOf(trace, event) ==
    IF trace = <<>> THEN 0
    ELSE (IF Head(trace) = event THEN 1 ELSE 0) + CountOf(Tail(trace), event)

\* Drop for PvRecorderInner
DropInner(c) ==
    LET h == facade[c]
        k == CountOf(DropCalls(session[h]), "pv_recorder_delete")
    IN  /\ facade[c] # 0
        /\ pc[c].at = "drop"
        /\ deletes' = [deletes EXCEPT ![h] = @ + k]
        /\ native' = IF k > 0 THEN [native EXCEPT ![h] = "deleted"] ELSE native
        /\ pc' = [pc EXCEPT ![c] = [at |-> "drop_fields"]]
        /\ last' = [op |-> "drop_in_place", clone |-> c, handle |-> h,
                    trace |-> DropCalls(session[h])]
        /\ UNCHANGED <<builder, session, strong, facade>>

\* the fields of the session go, the library is released
DropFields(c) ==
    LET h == facade[c]
    IN  /\ facade[c] # 0
        /\ pc[c].at = "drop_fields"
        /\ session' = [session EXCEPT ![h] = Dropped]
        /\ facade' = [facade EXCEPT ![c] = 0]
        /\ pc' = [pc EXCEPT ![c] = Idle]
        /\ last' = [op |-> "drop_fields", clone |-> c, handle |-> h,
                    trace |-> <<"Library::drop">>]
        /\ UNCHANGED <<builder, strong, native, deletes>>

(***************************************************************************)
(* The specifications.                                                     *)
(***************************************************************************)
Configure ==
    \/ \E n \in FrameLengths : SetFrameLength(n)
    \/ \E n \in DeviceIndexes : SetDeviceIndex(n)
    \/ \E n \in BufferedFramesCounts : SetBufferedFramesCount(n)
    \/ \E p \in LibraryPaths : SetLibraryPath(p)

Construct == \E nat \in InitNatives : BuilderInit(nat)

Enumerate == \E nat \in DeviceNatives : GetAvailableDevices(nat)

Share == \E c \in Clones : CloneFacade(c)

Calls(c) ==
    \/ CallStart(c)
    \/ CallStop(c)
    \/ CallRead(c)
    \/ \E buffer \in CallerBuffers : CallReadInto(c, buffer)
    \/ CallIsRecording(c)
    \/ \E flag \in BOOLEAN : CallSetDebugLogging(c, flag)

\* the answers of pv_recorder_read to a session of any frame length
ReadAnswers == UNION {ReadNatives(n, TRUE) : n \in 1..MaxFrameLength}

Returns(c) ==
    \/ \E status \in PvRecorderStatus : ReturnStart(c, status)
    \/ \E status \in PvRecorderStatus : ReturnStop(c, status)
    \/ \E nat \in ReadAnswers : ReturnRead(c, nat)
    \/ \E nat \in ReadAnswers : ReturnReadInto(c, nat)
    \/ \E answer \in TrueInts \cup {0} : ReturnIsRecording(c, answer)
    \/ ReturnSetDebugLogging(c)

Record == \E c \in Clones : Calls(c) \/ Returns(c)

Dispose ==
    \E c \in Clones : DropFacade(c) \/ DropInner(c) \/ DropFields(c)

Getters ==
    \E c \in Clones :
        GetFrameLength(c) \/ GetSampleRate(c) \/ GetSelectedDevice(c) \/ GetVersion(c)

Next ==
    Configure \/ Construct \/ Enumerate \/ Share \/ Record \/ Getters \/ Dispose

Spec == Init /\ [][Next]_vars

\* no handle was handed out yet
NoHandle == \A h \in Handles : native[h] = "unallocated"

\* the calls, read_into with a buffer of just the frame length
CallsCached(c) ==
    \/ CallStart(c)
    \/ CallStop(c)
    \/ CallRead(c)
    \/ CallReadInto(c, CallerBuffer(builder.frame_length))
    \/ CallIsRecording(c)
    \/ CallSetDebugLogging(c, TRUE)

\* a builder is configured and initialised over and over; the facades it
\* returns are kept
NextBuilder == Configure \/ Construct

SpecBuilder == Init /\ [][NextBuilder]_vars

\* the devices are enumerated through builders with any library path
NextDevices == (\E p \in LibraryPaths : SetLibraryPath(p)) \/ Enumerate

SpecDevices == Init /\ [][NextDevices]_vars

InitSession == Init /\ builder.frame_length > 0

\* no call is in flight
Quiet == \A c \in Clones : pc[c] = Idle

\* sessions are built from a valid configuration and used one call at a time
NextRead ==
    \/ Construct
    \/ \E c \in Clones : Quiet /\ Calls(c)
    \/ \E c \in Clones : Returns(c)

SpecRead == InitSession /\ [][NextRead]_vars

\* sessions are built from one valid configuration, shared by threads and
\* dropped by them in any order
InitShare == Init /\ builder.frame_length = 1

NextShare == Construct \/ Share \/ Dispose

SpecShare == InitShare /\ [][NextShare]_vars

(***************************************************************************)
(* Properties of PvRecorderBuilder::init, under SpecBuilder.               *)
(***************************************************************************)
InitReturned == last.op = "init"

ArgumentErrorNaming(result, field) ==
    /\ ~result.ok
    /\ IsErr(result)
    /\ result.error.status = ArgumentError
    /\ Contains(result.error.message, field)

\* C1: init on a configuration with frame_length <= 0, whatever the other
\* fields are, returns an ArgumentError whose message mentions "frame_length";
\* the library is not opened, no native entry point is called, and no session,
\* facade or native object comes to exist.
C1_FrameLengthRejected ==
    [][(InitReturned' /\ last'.config.frame_length <= 0) =>
          /\ ArgumentErrorNaming(last'.result, "frame_length")
          /\ last'.trace = <<>>
          /\ last'.produced = 0
          /\ UNCHANGED <<session, strong, facade, native, deletes>>]_vars

C1_Witness ==
    /\ InitReturned
    /\ last.config.frame_length <= 0
    /\ last.config.device_index < -1
    /\ last.config.buffered_frames_count <= 0
    /\ last.config.library_path = "lib/absent"
    /\ ~last.result.ok

\* C2 as stated: init on a configuration with device_index < -1, whatever the
\* other fields are, returns an ArgumentError whose message mentions
\* "device_index".
C2_AsStated ==
    (InitReturned /\ last.config.device_index < -1) =>
        ArgumentErrorNaming(last.result, "device_index")

\* C2 amended: init on a configuration with device_index < -1 returns an
\* ArgumentError; its message mentions "device_index" when frame_length > 0,
\* and "frame_length", the field checked first, when frame_length <= 0.
C2_DeviceIndexRejected ==
    (InitReturned /\ last.config.device_index < -1) =>
        /\ last.config.frame_length > 0 =>
              ArgumentErrorNaming(last.result, "device_index")
        /\ last.config.frame_length <= 0 =>
              ArgumentErrorNaming(last.result, "frame_length")
        /\ last.trace = <<>>

C2_Witness ==
    /\ InitReturned
    /\ last.config.frame_length > 0
    /\ last.config.device_index < -1
    /\ last.config.buffered_frames_count <= 0
    /\ ~last.result.ok

\* C3 as stated: init on a configuration with buffered_frames_count <= 0,
\* whatever the other fields are, returns an ArgumentError whose message
\* mentions "buffered_frames_count".
C3_AsStated ==
    (InitReturned /\ last.config.buffered_frames_count <= 0) =>
        ArgumentErrorNaming(last.result, "buffered_frames_count")

\* C3 amended: init on a configuration with buffered_frames_count <= 0 returns
\* an ArgumentError; its message mentions "buffered_frames_count" when
\* frame_length > 0 and device_index >= -1, and otherwise the first of
\* frame_length and device_index that is out of range.
C3_BufferedFramesCountRejected ==
    (InitReturned /\ last.config.buffered_frames_count <= 0) =>
        /\ (last.config.frame_length > 0 /\ last.config.device_index >= -1) =>
              ArgumentErrorNaming(last.result, "buffered_frames_count")
        /\ last.config.frame_length <= 0 =>
              ArgumentErrorNaming(last.result, "frame_length")
        /\ (last.config.frame_length > 0 /\ last.config.device_index < -1) =>
              ArgumentErrorNaming(last.result, "device_index")
        /\ last.trace = <<>>

C3_Witness ==
    /\ InitReturned
    /\ last.config.frame_length > 0
    /\ last.config.device_index >= -1
    /\ last.config.buffered_frames_count <= 0
    /\ last.config.library_path = pv_library_path
    /\ ~last.result.ok

(***************************************************************************)
(* Properties of the handle's lifetime.                                    *)
(***************************************************************************)
Alive(c) == facade[c] # 0 /\ pc[c].at \notin {"drop", "drop_fields"}

\* C4: a session shared by any number of facades has pv_recorder_delete
\* called on its handle exactly once: not while a facade of it is alive, and
\* once when the last one was dropped, in whatever order they are dropped
\* (under SpecShare).
C4_DeleteExactlyOnce ==
    \A h \in Handles :
        /\ deletes[h] <= 1
        /\ (\E c \in Clones : facade[c] = h /\ Alive(c)) => deletes[h] = 0
        /\ (\E c \in Clones : facade[c] = h /\ pc[c].at = "drop_fields") =>
              deletes[h] = 1
        /\ session[h] = Dropped => deletes[h] = 1

\* the third facade of the session is the last to go, and the session is
\* dropped with it
C4_Witness ==
    /\ last.op = "drop_fields"
    /\ last.clone = 3
    /\ last.handle = 1
    /\ session[1] = Dropped
    /\ deletes[1] = 1

\* C5 as stated: every handle pv_recorder_init produced is passed to
\* pv_recorder_delete exactly once on every path that follows: it is owned by
\* a session that will delete it, or it was deleted once (under SpecBuilder).
C5_AsStated ==
    \A h \in Handles :
        native[h] # "unallocated" =>
            \/ session[h].cpvrecorder = h /\ deletes[h] = 0
            \/ deletes[h] = 1

(***************************************************************************)
(* Properties of get_available_devices, under SpecDevices.                 *)
(***************************************************************************)
DevicesReturned == last.op = "get_available_devices"

DevicesObtained ==
    /\ DevicesReturned
    /\ Called(last.trace, "pv_recorder_get_available_devices")
    /\ last.native.status = SUCCESS

\* C6 as stated: whenever pv_recorder_get_available_devices returned SUCCESS,
\* pv_recorder_free_available_devices was called exactly once before
\* get_available_devices returned, whether or not every name decoded.
C6_AsStated ==
    DevicesObtained =>
        CountOf(last.trace, "pv_recorder_free_available_devices") = 1

\* C7: get_available_devices returns an error and no list, or a list as long
\* as the native count whose i-th element is the i-th native name; an error
\* exactly when the library does not load, the native call fails or a name
\* does not decode.
C7_AllOrNothing ==
    DevicesReturned =>
        IF last.result.ok
        THEN /\ DevicesObtained
             /\ Len(last.result.value) = last.native.count
             /\ \A i \in 1..last.native.count :
                    /\ Utf8Valid(last.native.list[i])
                    /\ last.result.value[i] = Utf8Decode(last.native.list[i])
        ELSE /\ IsErr(last.result)
             /\ "value" \notin DOMAIN last.result
             /\ \/ ~DevicesObtained
                \/ \E i \in 1..last.native.count : ~Utf8Valid(last.native.list[i])

C7_Witness ==
    /\ DevicesReturned
    /\ last.result.ok
    /\ last.result.value = <<<<65>>, <<8364>>>>

(***************************************************************************)
(* Properties of read and read_into, under SpecRead.                       *)
(***************************************************************************)
\* C8: a read that returns Ok returns exactly frame_length samples, the frame
\* length the session was configured with; a read whose native call reports
\* an error status returns that error and no samples.
C8_ReadLength ==
    last.op = "read" =>
        /\ last.frame_length = builder.frame_length
        /\ IF last.native.status = SUCCESS
           THEN /\ last.result.ok
                /\ Len(last.result.value) = last.frame_length
                /\ last.result.value = last.native.samples
           ELSE /\ IsErr(last.result)
                /\ last.result.error.status = LibraryError(last.native.status)
                /\ "value" \notin DOMAIN last.result

C8_Witness ==
    /\ last.op = "read"
    /\ last.recording
    /\ last.result.ok
    /\ Len(last.result.value) = MaxFrameLength

\* C9: read_into with a buffer shorter than frame_length panics, which is no
\* returned Error, before pv_recorder_read is called; the buffer is unchanged.
C9_ShortBufferPanics ==
    (last.op = "read_into" /\ Len(last.buffer_in) < last.frame_length) =>
        /\ IsPanic(last.result)
        /\ ~IsErr(last.result)
        /\ Contains(last.result.panic, "buffer")
        /\ last.trace = <<>>
        /\ last.buffer_out = last.buffer_in

C9_Witness ==
    /\ last.op = "read_into"
    /\ last.recording
    /\ Len(last.buffer_in) = 1
    /\ last.frame_length = 2
    /\ IsPanic(last.result)

\* C10 as stated: read_into on a started recorder with a buffer longer than
\* frame_length succeeds, writes the first frame_length entries and leaves the
\* entries after them unchanged.
C10_AsStated ==
    (last.op = "read_into" /\ last.recording
        /\ Len(last.buffer_in) > last.frame_length) =>
        /\ last.result.ok
        /\ \A i \in 1..Len(last.buffer_in) :
              last.buffer_out[i] = IF i <= last.frame_length
                                   THEN last.native.samples[i]
                                   ELSE last.buffer_in[i]

\* C10 amended: read_into with a buffer longer than frame_length calls
\* pv_recorder_read and leaves the entries from frame_length on unchanged; when
\* pv_recorder_read reports SUCCESS it returns Ok and the first frame_length
\* entries are the frame; when it reports an error status it returns that
\* status as an error.
C10_LongBuffer ==
    (last.op = "read_into" /\ Len(last.buffer_in) > last.frame_length) =>
        /\ ~IsPanic(last.result)
        /\ last.trace = <<"pv_recorder_read">>
        /\ Len(last.buffer_out) = Len(last.buffer_in)
        /\ \A i \in (last.frame_length + 1)..Len(last.buffer_in) :
              last.buffer_out[i] = last.buffer_in[i]
        /\ IF last.native.status = SUCCESS
           THEN /\ last.result.ok
                /\ \A i \in 1..last.frame_length :
                      last.buffer_out[i] = last.native.samples[i]
           ELSE /\ IsErr(last.result)
                /\ last.result.error.status = LibraryError(last.native.status)

C10_Witness ==
    /\ last.op = "read_into"
    /\ last.recording
    /\ last.frame_length = 2
    /\ Len(last.buffer_in) = 3
    /\ last.result.ok
    /\ last.buffer_out = <<1, 0, -3>>

(***************************************************************************)
(* Properties of the loader, under SpecLoad: a valid configuration whose   *)
(* library path is set to libraries that lack symbols, initialised and     *)
(* enumerated through.                                                     *)
(***************************************************************************)
InitLoad == Init /\ builder.frame_length = 1

NextLoad ==
    \/ \E p \in LoadPaths : SetLibraryPath(p)
    \/ NoHandle /\ Construct
    \/ NoHandle /\ Enumerate

SpecLoad == InitLoad /\ [][NextLoad]_vars

\* the library path an init or get_available_devices that returned went to
LoadPathOf(e) == IF e.op = "init" THEN e.config.library_path ELSE e.library_path

\* the call reached the loader, and the library it opened lacks a symbol
LoadLacking(e) ==
    /\ e.op \in {"init", "get_available_devices"}
    /\ e.op = "init" => ValidateConfig(e.config).ok
    /\ FileAt(LoadPathOf(e)).exists
    /\ FileAt(LoadPathOf(e)).exports # SymbolSet

\* the first symbol, in the order of the table, the library does not export
FirstMissing(path) ==
    Symbols[CHOOSE i \in 1..Len(Symbols) :
                /\ Symbols[i] \notin FileAt(path).exports
                /\ \A j \in 1..(i - 1) : Symbols[j] \in FileAt(path).exports]

\* no table, a LibraryLoadError, and nothing done to the library between
\* opening and releasing it
LoadFailed(e) ==
    /\ ~PvRecorderInnerVTable_new(LibraryNew(LoadPathOf(e)).value).ok
    /\ "value" \notin DOMAIN PvRecorderInnerVTable_new(LibraryNew(LoadPathOf(e)).value)
    /\ IsErr(e.result)
    /\ "value" \notin DOMAIN e.result
    /\ e.result.error.status = LibraryLoadError
    /\ e.trace = <<"Library::new", "Library::drop">>
    /\ e.op = "init" => e.produced = 0

\* C11 as stated: when the library lacks any of the 12 symbols, init and
\* get_available_devices alike fail with a LibraryLoadError whose message
\* names the missing symbol, with no table, no native call and the library
\* released.
C11_AsStated ==
    LoadLacking(last) =>
        /\ LoadFailed(last)
        /\ Contains(last.result.error.message, FirstMissing(LoadPathOf(last)))

\* C11, the part that holds: when the library lacks any of the 12 symbols,
\* init and get_available_devices alike fail with a LibraryLoadError; no
\* table, full or partial, is produced, no native entry point is called, no
\* session, facade or native object comes to exist and the library is
\* released.  The message is the fixed prefix followed by the loader's text
\* for the first symbol missing.
C11_AtomicLoad ==
    [][LoadLacking(last') =>
          /\ LoadFailed(last')
          /\ last'.result.error.message =
                "Failed to load function symbol from pvrecorder library: "
                \o LoaderDescription(LibraryNew(LoadPathOf(last')).value,
                                     FirstMissing(LoadPathOf(last')))
          /\ UNCHANGED <<session, strong, facade, native, deletes>>]_vars

\* init of the cfg(windows) build through a dll that lacks pv_recorder_delete:
\* the error does not say so
C11_Witness ==
    /\ last.op = "init"
    /\ last.config.library_path = StrippedDll("pv_recorder_delete")
    /\ IsErr(last.result)
    /\ last.result.error.status = LibraryLoadError
    /\ ~Contains(last.result.error.message, "pv_recorder_delete")
    /\ last.trace = <<"Library::new", "Library::drop">>

(***************************************************************************)
(* Properties of the recording state, under SpecRecording: a session       *)
(* shared by facades and used through any of them, one call at a time.     *)
(***************************************************************************)
NextRecording ==
    \/ NoHandle /\ Construct
    \/ Share
    \/ \E c \in Clones : Quiet /\ CallsCached(c)
    \/ \E c \in Clones : Returns(c)

SpecRecording == InitShare /\ [][NextRecording]_vars

\* what is_recording on a facade of the session returns when called now
Recording(h) == native[h] = "recording"

\* a call through a facade has returned
CallReturned(e, op) == e.op = op /\ "clone" \in DOMAIN e /\ "result" \in DOMAIN e

\* C12: is_recording is false after a successful init, true after a start
\* that returned Ok and false after a stop that returned Ok, through whichever
\* facade of the session the calls are made; a start or stop that returned an
\* error, read, read_into, set_debug_logging, clone and is_recording leave it
\* as it was; and the value is_recording returns is that value.
C12_IsRecordingTracks ==
    [][/\ (last'.op = "init" /\ last'.result.ok) =>
              native'[last'.result.value.inner] # "recording"
       /\ (CallReturned(last', "start") /\ last'.result.ok) =>
              native'[last'.handle] = "recording"
       /\ (CallReturned(last', "stop") /\ last'.result.ok) =>
              native'[last'.handle] # "recording"
       /\ ((last'.op \in {"start", "stop"} /\ ~last'.result.ok)
              \/ last'.op \in {"read", "read_into", "set_debug_logging",
                                "is_recording", "clone", "enter"}) =>
              \A h \in Handles : Recording(h)' = Recording(h)
       /\ last'.op = "is_recording" =>
              last'.value = Recording(last'.handle)]_vars

\* the second facade of a started session is asked, and the native layer
\* answers with a true that is not 1
C12_Witness ==
    /\ last.op = "is_recording"
    /\ last.clone = 2
    /\ last.native = 2
    /\ last.value = TRUE
    /\ Recording(last.handle)

(***************************************************************************)
(* Properties of the cached getters, under SpecCached: a session built     *)
(* from a valid configuration, shared, used through any facade one call at *)
(* a time, queried and dropped facade by facade.                           *)
(***************************************************************************)
NextCached ==
    \/ NoHandle /\ Construct
    \/ Share
    \/ Getters
    \/ \E c \in Clones : Quiet /\ CallsCached(c)
    \/ \E c \in Clones : Returns(c)
    \/ Dispose

SpecCached == InitSession /\ [][NextCached]_vars

LiveSession(h) == session[h] # NoSession /\ session[h] # Dropped

\* what the getter of that name returns for a session with these fields
CachedValue(getter, inner) ==
    CASE getter = "frame_length" -> inner.frame_length
      [] getter = "sample_rate" -> inner.sample_rate
      [] getter = "selected_device" -> inner.selected_device
      [] getter = "version" -> inner.version

\* C13: the fields of a session are those captured by init, frame_length the
\* one the builder was given, and stay as they are until the session is
\* dropped, whatever is called through its facades; frame_length,
\* sample_rate, selected_device and version return them, the same through
\* every facade of the session, and call no native entry point.
C13_CachedGetters ==
    [][/\ (last'.op = "init" /\ last'.result.ok) =>
              /\ session'[last'.result.value.inner].frame_length = builder.frame_length
              /\ session'[last'.result.value.inner].sample_rate \in SampleRates
              /\ \E d \in NativeStrings :
                    CStrToStr(d) = Ok(session'[last'.result.value.inner].selected_device)
              /\ \E v \in VersionStrings :
                    CStrToStr(v) = Ok(session'[last'.result.value.inner].version)
       /\ \A h \in Handles :
              LiveSession(h) => session'[h] \in {session[h], Dropped}
       /\ last'.op = "get" =>
              /\ LiveSession(last'.handle)
              /\ last'.value = CachedValue(last'.getter, session[last'.handle])
              /\ last'.getter = "frame_length" => last'.value = builder.frame_length
              /\ last'.trace = <<>>
              /\ UNCHANGED <<session, native, deletes, pc>>]_vars

\* the third facade of a recording session, the first one dropped, returns
\* the device name decoded at init
C13_Witness ==
    /\ last.op = "get"
    /\ last.getter = "selected_device"
    /\ last.clone = 3
    /\ facade[1] = 0
    /\ Recording(last.handle)
    /\ last.value = <<8364>>

(***************************************************************************)
(* Properties of the native statuses, under SpecStatus: devices are        *)
(* enumerated, one session is built and started, stopped and read through  *)
(* its facade, one call at a time.                                         *)
(***************************************************************************)
CallsStatus(c) ==
    \/ CallStart(c)
    \/ CallStop(c)
    \/ CallRead(c)
    \/ CallReadInto(c, CallerBuffer(builder.frame_length))

ReturnsStatus(c) ==
    \/ \E status \in PvRecorderStatus : ReturnStart(c, status)
    \/ \E status \in PvRecorderStatus : ReturnStop(c, status)
    \/ \E nat \in ReadAnswers : ReturnRead(c, nat)
    \/ \E nat \in ReadAnswers : ReturnReadInto(c, nat)

NextStatus ==
    \/ NoHandle /\ Construct
    \/ Enumerate
    \/ \E c \in Clones : Quiet /\ CallsStatus(c)
    \/ \E c \in Clones : ReturnsStatus(c)

SpecStatus == InitSession /\ [][NextStatus]_vars

\* the statuses the status-returning entry points answered in the call that
\* returned: of pv_recorder_init, pv_recorder_start, pv_recorder_stop,
\* pv_recorder_read and pv_recorder_get_available_devices
NativeStatuses(e) ==
    IF e.op = "init" THEN e.statuses
    ELSE IF e.op = "get_available_devices"
         THEN IF Called(e.trace, "pv_recorder_get_available_devices")
              THEN <<e.native.status>> ELSE <<>>
    ELSE IF e.op \in {"start", "stop", "read", "read_into"} /\ e.trace # <<>>
         THEN <<e.native.status>>
    ELSE <<>>

\* C14: init, start, stop, read, read_into and get_available_devices return
\* Ok only when the native entry point they called answered SUCCESS, and for
\* each of the eight other statuses return a LibraryError carrying that very
\* status, which differs from the LibraryError of every other status.
C14_StatusForwarded ==
    /\ Cardinality(ErrorStatuses) = 8
    /\ \A s \in ErrorStatuses : \A t \in PvRecorderStatus :
          s # t => LibraryError(s) # LibraryError(t)
    /\ \A i \in 1..Len(NativeStatuses(last)) :
          LET status == NativeStatuses(last)[i]
          IN  /\ last.result.ok => status = SUCCESS
              /\ status # SUCCESS =>
                    /\ ~last.result.ok
                    /\ IsErr(last.result)
                    /\ last.result.error.status = LibraryError(status)
                    /\ "value" \notin DOMAIN last.result

\* stop on a session that is not recording answers INVALID_STATE
C14_Witness ==
    /\ last.op = "stop"
    /\ ~last.recording
    /\ last.native.status = INVALID_STATE
    /\ last.result = Err(PvRecorderError(LibraryError(INVALID_STATE),
                          "Function 'pv_recorder_stop' in the pvrecorder library failed"))

(***************************************************************************)
(* Properties of the library's lifetime, under SpecMapped: devices are     *)
(* enumerated, then one session is built, shared, used through its facades *)
(* one call at a time and dropped facade by facade.                        *)
(***************************************************************************)
NextMapped ==
    \/ NoHandle /\ Construct
    \/ NoHandle /\ Enumerate
    \/ Share
    \/ \E c \in Clones : Quiet /\ CallsCached(c)
    \/ \E c \in Clones : Returns(c)
    \/ Dispose

SpecMapped == InitShare /\ [][NextMapped]_vars

\* in a trace that opens the library, every native call comes after the
\* library was opened and before it is released, and it is released at most
\* once
MappedThroughout(trace) ==
    /\ \A i \in 1..Len(trace) :
          trace[i] \in SymbolSet =>
              /\ \E j \in 1..(i - 1) : trace[j] = "Library::new"
              /\ \A j \in 1..(i - 1) : trace[j] # "Library::drop"
    /\ CountOf(trace, "Library::drop") <= 1

\* the library of the session is mapped: the session holds the table, and
\* the table the library it was resolved from
SessionMapped(h) ==
    /\ LiveSession(h)
    /\ FileAt(session[h].vtable.lib_guard.path).exists
    /\ session[h].vtable.fns \subseteq session[h].vtable.lib_guard.exports

\* the native entry point behind a call of the facade
EntryPoint(op) ==
    CASE op = "start" -> "pv_recorder_start"
      [] op = "stop" -> "pv_recorder_stop"
      [] op \in {"read", "read_into"} -> "pv_recorder_read"
      [] op = "is_recording" -> "pv_recorder_get_is_recording"
      [] op = "set_debug_logging" -> "pv_recorder_set_debug_logging"

\* C15: every native entry point is called while the library it was resolved
\* from is mapped: inside init and get_available_devices between opening and
\* releasing the library, through a facade while the session holds it, and
\* pv_recorder_delete before the fields of the session go; the library of a
\* session is released only after its last facade was dropped, and strictly
\* after pv_recorder_delete.
C15_LibraryMapped ==
    /\ last.op \in {"init", "get_available_devices"} => MappedThroughout(last.trace)
    /\ \A c \in Clones :
          (facade[c] # 0 /\ pc[c].at = "native") =>
              /\ SessionMapped(facade[c])
              /\ EntryPoint(pc[c].op) \in session[facade[c]].vtable.fns
    /\ (last.op \in {"start", "stop", "read", "read_into", "is_recording",
                      "set_debug_logging"} /\ last.trace # <<>>) =>
          /\ SessionMapped(last.handle)
          /\ last.trace = <<EntryPoint(last.op)>>
    /\ last.op = "drop_in_place" =>
          /\ SessionMapped(last.handle)
          /\ last.trace = <<"pv_recorder_delete">>
          /\ strong[last.handle] = 0
    /\ last.op = "drop_fields" =>
          /\ session[last.handle] = Dropped
          /\ deletes[last.handle] = 1
          /\ strong[last.handle] = 0
          /\ \A c \in Clones : facade[c] # last.handle
    /\ \A h \in Handles :
          /\ (\E c \in Clones : facade[c] = h) => SessionMapped(h)
          /\ session[h] = Dropped =>
                deletes[h] = 1 /\ \A c \in Clones : facade[c] # h

\* the second facade of a session is the last to go: with it the library of
\* the session is released, after the one call of pv_recorder_delete
C15_Witness ==
    /\ last.op = "drop_fields"
    /\ last.clone = 2
    /\ last.trace = <<"Library::drop">>
    /\ deletes[last.handle] = 1
    /\ \A c \in Clones : facade[c] = 0

(***************************************************************************)
(* Properties of the threads, under SpecThreads: one session is built and  *)
(* shared; every facade is held by a thread, and the threads call and drop *)
(* in any interleaving, several calls in progress at a time.               *)
(***************************************************************************)
\* the native layer answers the threads with success, or with INVALID_STATE
\* where the state of the recorder does not allow the call
ThreadStatuses == {SUCCESS, INVALID_STATE}

ReturnsThreads(c) ==
    \/ \E status \in ThreadStatuses : ReturnStart(c, status)
    \/ \E status \in ThreadStatuses : ReturnStop(c, status)
    \/ \E nat \in ReadAnswers :
          nat.status \in ThreadStatuses /\ ReturnRead(c, nat)
    \/ \E nat \in ReadAnswers :
          nat.status \in ThreadStatuses /\ ReturnReadInto(c, nat)
    \/ \E answer \in TrueInts \cup {0} : ReturnIsRecording(c, answer)
    \/ ReturnSetDebugLogging(c)

NextThreads ==
    \/ NoHandle /\ Construct
    \/ Share
    \/ \E c \in Clones : CallsCached(c)
    \/ \E c \in Clones : ReturnsThreads(c)
    \/ Dispose

SpecThreads == InitShare /\ [][NextThreads]_vars

\* the threads inside a native entry point with the handle
InProgress(h) == {c \in Clones : facade[c] = h /\ pc[c].at = "native"}

\* C16: in every interleaving of the threads that hold the facades of a
\* session, no native call on its handle is in progress once
\* pv_recorder_delete was called with it: none was when it was called, and
\* none begins after; and pv_recorder_delete is called by the thread that
\* dropped the last facade, the count at 0.
C16_NoCallAcrossDelete ==
    /\ \A h \in Handles :
          (deletes[h] > 0 \/ native[h] = "deleted") => InProgress(h) = {}
    /\ \A c \in Clones :
          (facade[c] # 0 /\ pc[c].at \in {"drop", "drop_fields"}) =>
              /\ InProgress(facade[c]) = {}
              /\ strong[facade[c]] = 0
              /\ \A d \in Clones : facade[d] = facade[c] => d = c
    /\ \A h \in Handles : InProgress(h) # {} => strong[h] >= Cardinality(InProgress(h))
    /\ (last.op \in {"start", "stop", "read", "read_into", "is_recording",
                      "set_debug_logging"} /\ last.trace # <<>>) =>
          deletes[last.handle] = 0

\* the third thread has just dropped its facade while the other two are
\* each inside a native call
C16_Witness ==
    /\ last.op = "drop"
    /\ last.clone = 3
    /\ facade[3] = 0
    /\ pc[1].at = "native"
    /\ pc[2].at = "native"
    /\ pc[1].op = "read"
    /\ pc[2].op = "stop"
    /\ strong[last.handle] = 2
    /\ deletes[last.handle] = 0

(***************************************************************************)
(* Properties of PvRecorderInner::init after pv_recorder_init returned,    *)
(* under SpecBuilder.                                                      *)
(***************************************************************************)
\* pv_recorder_init was called and answered with this status
InitAnswered(e, status) == e.op = "init" /\ e.statuses = <<status>>

\* C17: when pv_recorder_init answers SUCCESS and leaves the handle null, init
\* returns an OtherError, which is no LibraryError, LibraryLoadError or
\* ArgumentError, calls no entry point after pv_recorder_init and releases the
\* library; when it answers another status, init returns the LibraryError of
\* that status, likewise with no further call; in both cases no session,
\* facade or native object comes to exist and pv_recorder_delete is not
\* called.
C17_NullHandleRejected ==
    [][/\ (InitAnswered(last', SUCCESS) /\ last'.produced = 0) =>
              /\ IsErr(last'.result)
              /\ last'.result.error.status = OtherError
              /\ OtherError \notin {LibraryLoadError, ArgumentError}
              /\ \A s \in PvRecorderStatus : OtherError # LibraryError(s)
              /\ last'.trace = <<"Library::new", "pv_recorder_init", "Library::drop">>
              /\ UNCHANGED <<session, strong, facade, native, deletes>>
       /\ \A status \in ErrorStatuses :
              InitAnswered(last', status) =>
                  /\ IsErr(last'.result)
                  /\ last'.result.error.status = LibraryError(status)
                  /\ last'.produced = 0
                  /\ last'.trace =
                        <<"Library::new", "pv_recorder_init", "Library::drop">>
                  /\ UNCHANGED <<session, strong, facade, native, deletes>>]_vars

\* pv_recorder_init answered SUCCESS and stored no handle
C17_Witness ==
    /\ InitAnswered(last, SUCCESS)
    /\ last.produced = 0
    /\ IsErr(last.result)
    /\ Contains(last.result.error.message, "null")
    /\ \A h \in Handles : session[h] = NoSession /\ deletes[h] = 0

====
